---- MODULE Spec2Model ----
(***************************************************************************)
(* Fancy Logger (source/common/common/fancy_logger.cc): the global map of  *)
(* <key, logger> pairs guarded by fancy_log_lock_, the per-call-site       *)
(* atomic logger pointer of the FANCY_LOG macro, and the level update      *)
(* interfaces.  Threads run the operations concurrently; every lock        *)
(* acquisition and every access to shared memory is one step.              *)
(***************************************************************************)
EXTENDS Integers, Sequences, FiniteSets, TLC

(* ------------------------------ bounds --------------------------------- *)
NumThreads == 2
NumSites == 3
MaxLevel == 2
MaxOps == 4

Threads == 1..NumThreads
\* call sites of FANCY_LOG; FANCY_KEY is the file of the call site, so
\* several sites share a key (N-to-1 mapping, fancy_design.md:88)
Sites == 1..NumSites
FANCY_KEY(s) == (s + 1) \div 2
Keys == {FANCY_KEY(s) : s \in Sites}
\* an initial segment of spdlog::level::level_enum (trace = 0, debug, info..)
Levels == 0..MaxLevel
\* the LEVEL written in the FANCY_LOG statement of site s
LEVEL(s) == s % (MaxLevel + 1)

(* --------------------------- program constants ------------------------- *)
NullPtr == 0
NoLevel == -1
Info == 2
LOG_PATTERN == "[%Y-%m-%d %T.%e][%t][%l][%n] %v"
Formats == {LOG_PATTERN, "%v"}

VARIABLES
  fancy_log_map,        \* key -> logger pointer, NullPtr when absent
  loggers,              \* heap of spdlog::logger objects; a pointer is an index
  fancy_log_lock,       \* absl::Mutex: [writer, readers]
  sink,                 \* the shared DelegatingLogSink
  fancy_default_level,  \* Logger::Context::getFancyDefaultLevel()
  fancy_log_format,     \* Logger::Context::getFancyLogFormat()
  flogger,              \* site -> static std::atomic<spdlog::logger*>
  pc,                   \* thread -> position
  arg,                  \* thread -> arguments of the running operation
  it,                   \* thread -> result of find(key)
  target,               \* thread -> local `target` of initFancyLogger
  local_flogger,        \* thread -> local_flogger of FANCY_LOG
  ret,                  \* thread -> value the running operation returns
  nops                  \* operations started so far

vars == <<fancy_log_map, loggers, fancy_log_lock, sink, fancy_default_level,
          fancy_log_format, flogger, pc, arg, it, target, local_flogger, ret, nops>>

shared == <<fancy_log_map, loggers, sink, fancy_default_level, fancy_log_format>>
locals == <<arg, it, target, local_flogger, ret>>

NoArg == [site |-> 0, key |-> 0, level |-> NoLevel, format |-> ""]
\* what an operation returns: a value, and for list the (identifier, level) pairs
Ret(v) == [value |-> v, list |-> {}]
NoRet == Ret("none")

Init ==
  /\ fancy_log_map = [k \in Keys |-> NullPtr]
  /\ loggers = <<>>
  /\ fancy_log_lock = [writer |-> 0, readers |-> {}]
  /\ sink = [hasLock |-> FALSE, should_escape |-> TRUE, setLockCalls |-> 0]
  /\ fancy_default_level = Info
  /\ fancy_log_format = LOG_PATTERN
  /\ flogger = [s \in Sites |-> NullPtr]
  /\ pc = [t \in Threads |-> "idle"]
  /\ arg = [t \in Threads |-> NoArg]
  /\ it = [t \in Threads |-> NullPtr]
  /\ target = [t \in Threads |-> NullPtr]
  /\ local_flogger = [t \in Threads |-> NullPtr]
  /\ ret = [t \in Threads |-> NoRet]
  /\ nops = 0

(* ------------------------------ the mutex ------------------------------ *)
\* a writer lock that does not wait for the current holders
WriterMutexLock_NoWait(t) ==
  fancy_log_lock' = [fancy_log_lock EXCEPT !.writer = t]

\* absl::WriterMutexLock constructor: exclusive
WriterMutexLock(t) ==
  /\ fancy_log_lock.writer = 0
  /\ fancy_log_lock.readers = {}
  /\ fancy_log_lock' = [fancy_log_lock EXCEPT !.writer = t]

\* absl::ReaderMutexLock constructor: shared with other readers
ReaderMutexLock(t) ==
  /\ fancy_log_lock.writer = 0
  /\ fancy_log_lock' = [fancy_log_lock EXCEPT !.readers = @ \cup {t}]

\* a scoped lock whose destructor does not release the mutex
MutexUnlock_Leak(t) ==
  fancy_log_lock' = fancy_log_lock

\* destructor of either scoped lock
MutexUnlock(t) ==
  fancy_log_lock' = [writer |-> IF fancy_log_lock.writer = t THEN 0 ELSE fancy_log_lock.writer,
                     readers |-> fancy_log_lock.readers \ {t}]

(* --------------------------- record factory ---------------------------- *)
\* initSink whose setLock leaves the sink reporting no lock
initSink_NoFlag ==
  sink' = [sink EXCEPT !.should_escape = FALSE, !.setLockCalls = @ + 1]

\* FancyContext::initSink
initSink ==
  sink' = IF ~sink.hasLock
            THEN [sink EXCEPT !.hasLock = TRUE, !.should_escape = FALSE,
                              !.setLockCalls = @ + 1]
            ELSE sink

\* the pointer make_shared<spdlog::logger> returns
new_logger == Len(loggers) + 1

\* createLogger with the built-in level and pattern instead of the context's
createLogger_BuiltinDefaults(key, level) ==
  /\ IF ~sink.hasLock THEN initSink ELSE UNCHANGED sink
  /\ loggers' = Append(loggers, [name |-> key, level |-> Info, pattern |-> LOG_PATTERN])
  /\ fancy_log_map' = IF fancy_log_map[key] = NullPtr
                        THEN [fancy_log_map EXCEPT ![key] = new_logger]
                        ELSE fancy_log_map

\* createLogger that forgets to put the logger into the map
createLogger_NoInsert(key, level) ==
  /\ IF ~sink.hasLock THEN initSink ELSE UNCHANGED sink
  /\ LET lv == IF level > -1 THEN level ELSE fancy_default_level
     IN loggers' = Append(loggers, [name |-> key, level |-> lv,
                                    pattern |-> fancy_log_format])
  /\ fancy_log_map' = fancy_log_map

\* FancyContext::createLogger(key, level); returns new_logger
createLogger(key, level) ==
  /\ IF ~sink.hasLock THEN initSink ELSE UNCHANGED sink
  /\ LET lv == IF level > -1 THEN level ELSE fancy_default_level
     IN loggers' = Append(loggers, [name |-> key, level |-> lv,
                                    pattern |-> fancy_log_format])
  \* flat_hash_map::insert keeps an existing entry
  /\ fancy_log_map' = IF fancy_log_map[key] = NullPtr
                        THEN [fancy_log_map EXCEPT ![key] = new_logger]
                        ELSE fancy_log_map

(* ------------------------------ FANCY_LOG ------------------------------ *)
Start(t, op, a) ==
  /\ pc[t] = "idle"
  /\ nops < MaxOps
  /\ nops' = nops + 1
  /\ pc' = [pc EXCEPT ![t] = op]
  /\ arg' = [arg EXCEPT ![t] = a]
  /\ UNCHANGED <<shared, fancy_log_lock, flogger, it, target, local_flogger, ret>>

\* a thread reaches the FANCY_LOG(LEVEL, ...) statement of site s
FANCY_LOG(t, s) ==
  Start(t, "log_load", [NoArg EXCEPT !.site = s, !.key = FANCY_KEY(s), !.level = LEVEL(s)])

Goto(t, l) == pc' = [pc EXCEPT ![t] = l]

\* FANCY_LOG that calls initFancyLogger whatever the slot holds
LogLoad_AlwaysInit(t) ==
  /\ pc[t] = "log_load"
  /\ local_flogger' = [local_flogger EXCEPT ![t] = flogger[arg[t].site]]
  /\ pc' = [pc EXCEPT ![t] = "init_lock"]
  /\ UNCHANGED <<shared, fancy_log_lock, flogger, arg, it, target, ret, nops>>

\* local_flogger = flogger.load(); if (!local_flogger)
LogLoad(t) ==
  /\ pc[t] = "log_load"
  /\ local_flogger' = [local_flogger EXCEPT ![t] = flogger[arg[t].site]]
  /\ Goto(t, IF flogger[arg[t].site] = NullPtr THEN "init_lock" ELSE "log_call")
  /\ UNCHANGED <<shared, fancy_log_lock, flogger, arg, it, target, ret, nops>>

\* initFancyLogger: absl::WriterMutexLock l(&fancy_log_lock_)
InitLock(t) ==
  /\ pc[t] = "init_lock"
  /\ WriterMutexLock(t)
  /\ Goto(t, "init_find")
  /\ UNCHANGED <<shared, flogger, locals, nops>>

\* initFancyLogger: it = getFancyLogMap()->find(key)
InitFind(t) ==
  /\ pc[t] = "init_find"
  /\ it' = [it EXCEPT ![t] = fancy_log_map[arg[t].key]]
  /\ Goto(t, "init_target")
  /\ UNCHANGED <<shared, fancy_log_lock, flogger, arg, target, local_flogger, ret, nops>>

\* initFancyLogger that creates a logger whatever find returned
InitTarget_AlwaysCreate(t) ==
  /\ pc[t] = "init_target"
  /\ createLogger(arg[t].key, NoLevel)
  /\ target' = [target EXCEPT ![t] = new_logger]
  /\ pc' = [pc EXCEPT ![t] = "init_store"]
  /\ UNCHANGED <<fancy_default_level, fancy_log_format, fancy_log_lock, flogger,
                 arg, it, local_flogger, ret, nops>>

\* initFancyLogger that applies the current defaults to the logger it found
InitTarget_ResetFound(t) ==
  /\ pc[t] = "init_target"
  /\ IF it[t] = NullPtr
       THEN /\ createLogger(arg[t].key, NoLevel)
            /\ target' = [target EXCEPT ![t] = new_logger]
       ELSE /\ target' = [target EXCEPT ![t] = it[t]]
            /\ loggers' = [loggers EXCEPT ![it[t]].level = fancy_default_level,
                                          ![it[t]].pattern = fancy_log_format]
            /\ UNCHANGED <<fancy_log_map, sink>>
  /\ pc' = [pc EXCEPT ![t] = "init_store"]
  /\ UNCHANGED <<fancy_default_level, fancy_log_format, fancy_log_lock, flogger,
                 arg, it, local_flogger, ret, nops>>

\* initFancyLogger: target = createLogger(key) or it->second.get()
InitTarget(t) ==
  /\ pc[t] = "init_target"
  /\ IF it[t] = NullPtr
       THEN /\ createLogger(arg[t].key, NoLevel)
            /\ target' = [target EXCEPT ![t] = new_logger]
       ELSE /\ target' = [target EXCEPT ![t] = it[t]]
            /\ UNCHANGED <<fancy_log_map, loggers, sink>>
  /\ Goto(t, "init_store")
  /\ UNCHANGED <<fancy_default_level, fancy_log_format, fancy_log_lock, flogger,
                 arg, it, local_flogger, ret, nops>>

\* initFancyLogger that returns without storing into the slot
InitStore_Skip(t) ==
  /\ pc[t] = "init_store"
  /\ pc' = [pc EXCEPT ![t] = "init_unlock"]
  /\ UNCHANGED <<shared, fancy_log_lock, flogger, locals, nops>>

\* initFancyLogger: logger.store(target)
InitStore(t) ==
  /\ pc[t] = "init_store"
  /\ flogger' = [flogger EXCEPT ![arg[t].site] = target[t]]
  /\ Goto(t, "init_unlock")
  /\ UNCHANGED <<shared, fancy_log_lock, locals, nops>>

\* initFancyLogger returns: the scoped lock is released
InitUnlock(t) ==
  /\ pc[t] = "init_unlock"
  /\ MutexUnlock(t)
  /\ it' = [it EXCEPT ![t] = NullPtr]
  /\ target' = [target EXCEPT ![t] = NullPtr]
  /\ Goto(t, "log_reload")
  /\ UNCHANGED <<shared, flogger, arg, local_flogger, ret, nops>>

\* local_flogger = flogger.load() after initFancyLogger
LogReload(t) ==
  /\ pc[t] = "log_reload"
  /\ local_flogger' = [local_flogger EXCEPT ![t] = flogger[arg[t].site]]
  /\ Goto(t, "log_call")
  /\ UNCHANGED <<shared, fancy_log_lock, flogger, arg, it, target, ret, nops>>

\* a pointer is valid while the map owns the logger it points to
Valid(p) == p \in 1..Len(loggers) /\ fancy_log_map[loggers[p].name] = p

\* spdlog::logger::should_log
should_log(p, level) == level >= loggers[p].level

\* local_flogger->log(...): forwarded to the sink when the level passes;
\* through a null or dangling pointer the outcome is arbitrary
LogCall(t) ==
  /\ pc[t] = "log_call"
  /\ \E shown \in BOOLEAN :
       /\ Valid(local_flogger[t]) => (shown <=> should_log(local_flogger[t], arg[t].level))
       /\ ret' = [ret EXCEPT ![t] = Ret(IF shown THEN "shown" ELSE "suppressed")]
  /\ Goto(t, "log_return")
  /\ UNCHANGED <<shared, fancy_log_lock, flogger, arg, it, target, local_flogger, nops>>

\* the end of the FANCY_LOG statement
LogReturn(t) ==
  /\ pc[t] = "log_return"
  /\ Goto(t, "idle")
  /\ arg' = [arg EXCEPT ![t] = NoArg]
  /\ local_flogger' = [local_flogger EXCEPT ![t] = NullPtr]
  /\ ret' = [ret EXCEPT ![t] = NoRet]
  /\ UNCHANGED <<shared, fancy_log_lock, flogger, it, target, nops>>

(* ---------------------------- setFancyLogger --------------------------- *)
setFancyLogger(t, key, level) ==
  Start(t, "set_lock", [NoArg EXCEPT !.key = key, !.level = level])

\* absl::ReaderMutexLock l(&fancy_log_lock_)
SetLock(t) ==
  /\ pc[t] = "set_lock"
  /\ ReaderMutexLock(t)
  /\ Goto(t, "set_find")
  /\ UNCHANGED <<shared, flogger, locals, nops>>

\* setFancyLogger that reports success for a key the map lacks
SetFind_AlwaysTrue(t) ==
  /\ pc[t] = "set_find"
  /\ it' = [it EXCEPT ![t] = fancy_log_map[arg[t].key]]
  /\ IF fancy_log_map[arg[t].key] # NullPtr
       THEN pc' = [pc EXCEPT ![t] = "set_level"] /\ UNCHANGED ret
       ELSE pc' = [pc EXCEPT ![t] = "set_unlock"] /\ ret' = [ret EXCEPT ![t] = Ret("true")]
  /\ UNCHANGED <<shared, fancy_log_lock, flogger, arg, target, local_flogger, nops>>

\* it = getFancyLogMap()->find(key); if (it != end()) ... return false
SetFind(t) ==
  /\ pc[t] = "set_find"
  /\ it' = [it EXCEPT ![t] = fancy_log_map[arg[t].key]]
  /\ IF fancy_log_map[arg[t].key] # NullPtr
       THEN Goto(t, "set_level") /\ UNCHANGED ret
       ELSE Goto(t, "set_unlock") /\ ret' = [ret EXCEPT ![t] = Ret("false")]
  /\ UNCHANGED <<shared, fancy_log_lock, flogger, arg, target, local_flogger, nops>>

\* setFancyLogger that puts a fresh logger with the level into the map
SetLevel_Replace(t) ==
  /\ pc[t] = "set_level"
  /\ loggers' = Append(loggers, [loggers[it[t]] EXCEPT !.level = arg[t].level])
  /\ fancy_log_map' = [fancy_log_map EXCEPT ![arg[t].key] = Len(loggers) + 1]
  /\ ret' = [ret EXCEPT ![t] = Ret("true")]
  /\ pc' = [pc EXCEPT ![t] = "set_unlock"]
  /\ UNCHANGED <<sink, fancy_default_level, fancy_log_format,
                 fancy_log_lock, flogger, arg, it, target, local_flogger, nops>>

\* setFancyLogger that sets the level of every logger
SetLevel_Every(t) ==
  /\ pc[t] = "set_level"
  /\ loggers' = [p \in 1..Len(loggers) |-> [loggers[p] EXCEPT !.level = arg[t].level]]
  /\ ret' = [ret EXCEPT ![t] = Ret("true")]
  /\ pc' = [pc EXCEPT ![t] = "set_unlock"]
  /\ UNCHANGED <<fancy_log_map, sink, fancy_default_level, fancy_log_format,
                 fancy_log_lock, flogger, arg, it, target, local_flogger, nops>>

\* setFancyLogger that also empties the slots of the key's call sites
SetLevel_Invalidate(t) ==
  /\ pc[t] = "set_level"
  /\ loggers' = [loggers EXCEPT ![it[t]].level = arg[t].level]
  /\ flogger' = [s \in Sites |-> IF FANCY_KEY(s) = arg[t].key THEN NullPtr ELSE flogger[s]]
  /\ ret' = [ret EXCEPT ![t] = Ret("true")]
  /\ pc' = [pc EXCEPT ![t] = "set_unlock"]
  /\ UNCHANGED <<fancy_log_map, sink, fancy_default_level, fancy_log_format,
                 fancy_log_lock, arg, it, target, local_flogger, nops>>

\* it->second->set_level(log_level); return true
SetLevel(t) ==
  /\ pc[t] = "set_level"
  /\ loggers' = [loggers EXCEPT ![it[t]].level = arg[t].level]
  /\ ret' = [ret EXCEPT ![t] = Ret("true")]
  /\ Goto(t, "set_unlock")
  /\ UNCHANGED <<fancy_log_map, sink, fancy_default_level, fancy_log_format,
                 fancy_log_lock, flogger, arg, it, target, local_flogger, nops>>

\* setFancyLogger returns: the scoped lock is released
SetUnlock(t) ==
  /\ pc[t] = "set_unlock"
  /\ MutexUnlock(t)
  /\ Goto(t, "idle")
  /\ arg' = [arg EXCEPT ![t] = NoArg]
  /\ it' = [it EXCEPT ![t] = NullPtr]
  /\ ret' = [ret EXCEPT ![t] = NoRet]
  /\ UNCHANGED <<shared, flogger, target, local_flogger, nops>>


(* ------------------- bulk and default level updates -------------------- *)
\* the loggers the map holds
Registered == {k \in Keys : fancy_log_map[k] # NullPtr}

setAllFancyLoggers(t, level) ==
  Start(t, "all_lock", [NoArg EXCEPT !.level = level])

\* setAllLevels takes the exclusive lock
AllLock(t) ==
  /\ pc[t] = "all_lock"
  /\ WriterMutexLock(t)
  /\ Goto(t, "all_apply")
  /\ UNCHANGED <<shared, flogger, locals, nops>>

\* setAllLevels that skips the loggers customized away from the default
AllLevels_OnlyDefault(level) ==
  [p \in 1..Len(loggers) |->
     IF fancy_log_map[loggers[p].name] = p /\ loggers[p].level = fancy_default_level
       THEN [loggers[p] EXCEPT !.level = level]
       ELSE loggers[p]]

\* the level every logger of the map has after setAllLevels(level)
AllLevels(level) ==
  [p \in 1..Len(loggers) |->
     IF fancy_log_map[loggers[p].name] = p
       THEN [loggers[p] EXCEPT !.level = level]
       ELSE loggers[p]]

\* setAllLevels that also makes the level the default of later loggers
AllApply_SetsDefault(t) ==
  /\ pc[t] = "all_apply"
  /\ loggers' = AllLevels(arg[t].level)
  /\ fancy_default_level' = arg[t].level
  /\ pc' = [pc EXCEPT ![t] = "all_unlock"]
  /\ UNCHANGED <<fancy_log_map, sink, fancy_log_format,
                 fancy_log_lock, flogger, locals, nops>>

\* setAllLevels overwrites the level of every record of the map
AllApply(t) ==
  /\ pc[t] = "all_apply"
  /\ loggers' = AllLevels(arg[t].level)
  /\ Goto(t, "all_unlock")
  /\ UNCHANGED <<fancy_log_map, sink, fancy_default_level, fancy_log_format,
                 fancy_log_lock, flogger, locals, nops>>

AllUnlock(t) ==
  /\ pc[t] = "all_unlock"
  /\ MutexUnlock(t)
  /\ Goto(t, "idle")
  /\ arg' = [arg EXCEPT ![t] = NoArg]
  /\ UNCHANGED <<shared, flogger, it, target, local_flogger, ret, nops>>

setDefaultFancyLevelFormat(t, level, format) ==
  Start(t, "def_lock", [NoArg EXCEPT !.level = level, !.format = format])

\* setDefaultLevelAndFormat takes the exclusive lock
DefLock(t) ==
  /\ pc[t] = "def_lock"
  /\ WriterMutexLock(t)
  /\ Goto(t, "def_apply")
  /\ UNCHANGED <<shared, flogger, locals, nops>>

\* a default update that overwrites the customized loggers too
DefaultLevels_Every(old, level) ==
  [p \in 1..Len(loggers) |->
     IF fancy_log_map[loggers[p].name] = p
       THEN [loggers[p] EXCEPT !.level = level]
       ELSE loggers[p]]

\* the loggers after the default level moves from old to level: the ones
\* still at the old default follow it
DefaultLevels(old, level) ==
  [p \in 1..Len(loggers) |->
     IF fancy_log_map[loggers[p].name] = p /\ loggers[p].level = old
       THEN [loggers[p] EXCEPT !.level = level]
       ELSE loggers[p]]

\* setDefaultLevelAndFormat updates the defaults and the default-level records
DefApply(t) ==
  /\ pc[t] = "def_apply"
  /\ loggers' = DefaultLevels(fancy_default_level, arg[t].level)
  /\ fancy_default_level' = arg[t].level
  /\ fancy_log_format' = arg[t].format
  /\ Goto(t, "def_unlock")
  /\ UNCHANGED <<fancy_log_map, sink, fancy_log_lock, flogger, locals, nops>>

DefUnlock(t) ==
  /\ pc[t] = "def_unlock"
  /\ MutexUnlock(t)
  /\ Goto(t, "idle")
  /\ arg' = [arg EXCEPT ![t] = NoArg]
  /\ UNCHANGED <<shared, flogger, it, target, local_flogger, ret, nops>>

listFancyLoggers(t) == Start(t, "list_lock", NoArg)

\* list may use the shared lock
ListLock(t) ==
  /\ pc[t] = "list_lock"
  /\ ReaderMutexLock(t)
  /\ Goto(t, "list_snap")
  /\ UNCHANGED <<shared, flogger, locals, nops>>

\* snapshot of all records: (identifier, level) pairs
Listing == {<<k, loggers[fancy_log_map[k]].level>> : k \in Registered}

ListSnap(t) ==
  /\ pc[t] = "list_snap"
  /\ ret' = [ret EXCEPT ![t] = [value |-> "listed", list |-> Listing]]
  /\ Goto(t, "list_unlock")
  /\ UNCHANGED <<shared, fancy_log_lock, flogger, arg, it, target, local_flogger, nops>>

ListUnlock(t) ==
  /\ pc[t] = "list_unlock"
  /\ MutexUnlock(t)
  /\ Goto(t, "idle")
  /\ ret' = [ret EXCEPT ![t] = NoRet]
  /\ UNCHANGED <<shared, flogger, arg, it, target, local_flogger, nops>>

Next ==
  \/ \E t \in Threads, s \in Sites : FANCY_LOG(t, s)
  \/ \E t \in Threads : LogLoad(t)
  \/ \E t \in Threads : InitLock(t)
  \/ \E t \in Threads : InitFind(t)
  \/ \E t \in Threads : InitTarget(t)
  \/ \E t \in Threads : InitStore(t)
  \/ \E t \in Threads : InitUnlock(t)
  \/ \E t \in Threads : LogReload(t)
  \/ \E t \in Threads : LogCall(t)
  \/ \E t \in Threads : LogReturn(t)
  \/ \E t \in Threads, k \in Keys, l \in Levels : setFancyLogger(t, k, l)
  \/ \E t \in Threads : SetLock(t)
  \/ \E t \in Threads : SetFind(t)
  \/ \E t \in Threads : SetLevel(t)
  \/ \E t \in Threads : SetUnlock(t)
  \/ \E t \in Threads, l \in Levels : setAllFancyLoggers(t, l)
  \/ \E t \in Threads : AllLock(t)
  \/ \E t \in Threads : AllApply(t)
  \/ \E t \in Threads : AllUnlock(t)
  \/ \E t \in Threads, l \in Levels, f \in Formats : setDefaultFancyLevelFormat(t, l, f)
  \/ \E t \in Threads : DefLock(t)
  \/ \E t \in Threads : DefApply(t)
  \/ \E t \in Threads : DefUnlock(t)
  \/ \E t \in Threads : listFancyLoggers(t)
  \/ \E t \in Threads : ListLock(t)
  \/ \E t \in Threads : ListSnap(t)
  \/ \E t \in Threads : ListUnlock(t)

Spec == Init /\ [][Next]_vars

(* ------------------------------ scheduling ----------------------------- *)
\* the steps thread t takes once it has entered an operation
Step(t) ==
  \/ LogLoad(t) \/ InitLock(t) \/ InitFind(t) \/ InitTarget(t) \/ InitStore(t)
  \/ InitUnlock(t) \/ LogReload(t) \/ LogCall(t) \/ LogReturn(t)
  \/ SetLock(t) \/ SetFind(t) \/ SetLevel(t) \/ SetUnlock(t)
  \/ AllLock(t) \/ AllApply(t) \/ AllUnlock(t)
  \/ DefLock(t) \/ DefApply(t) \/ DefUnlock(t)
  \/ ListLock(t) \/ ListSnap(t) \/ ListUnlock(t)

\* every thread that can run is scheduled; a thread blocked on the mutex runs
\* once the mutex stays available
FairSpec == Spec /\ \A t \in Threads : WF_vars(Step(t))

(* ------------- createLogger called with an explicit level -------------- *)
\* a caller of createLogger(key, level) for a key the map lacks, holding the
\* lock as ABSL_EXCLUSIVE_LOCKS_REQUIRED asks
createLoggerWithLevel(t, key, level) ==
  Start(t, "cr_lock", [NoArg EXCEPT !.key = key, !.level = level])

CrLock(t) ==
  /\ pc[t] = "cr_lock"
  /\ WriterMutexLock(t)
  /\ Goto(t, "cr_create")
  /\ UNCHANGED <<shared, flogger, locals, nops>>

CrCreate(t) ==
  /\ pc[t] = "cr_create"
  /\ IF fancy_log_map[arg[t].key] = NullPtr
       THEN createLogger(arg[t].key, arg[t].level)
       ELSE UNCHANGED <<fancy_log_map, loggers, sink>>
  /\ Goto(t, "cr_unlock")
  /\ UNCHANGED <<fancy_default_level, fancy_log_format, fancy_log_lock, flogger,
                 locals, nops>>

CrUnlock(t) ==
  /\ pc[t] = "cr_unlock"
  /\ MutexUnlock(t)
  /\ Goto(t, "idle")
  /\ arg' = [arg EXCEPT ![t] = NoArg]
  /\ UNCHANGED <<shared, flogger, it, target, local_flogger, ret, nops>>

\* the operations that construct loggers or move the defaults
NextCreate ==
  \/ \E t \in Threads, s \in Sites : FANCY_LOG(t, s)
  \/ \E t \in Threads : LogLoad(t)
  \/ \E t \in Threads : InitLock(t)
  \/ \E t \in Threads : InitFind(t)
  \/ \E t \in Threads : InitTarget(t)
  \/ \E t \in Threads : InitStore(t)
  \/ \E t \in Threads : InitUnlock(t)
  \/ \E t \in Threads : LogReload(t)
  \/ \E t \in Threads : LogCall(t)
  \/ \E t \in Threads : LogReturn(t)
  \/ \E t \in Threads, l \in Levels, f \in Formats : setDefaultFancyLevelFormat(t, l, f)
  \/ \E t \in Threads : DefLock(t)
  \/ \E t \in Threads : DefApply(t)
  \/ \E t \in Threads : DefUnlock(t)
  \/ \E t \in Threads, k \in Keys, l \in Levels : createLoggerWithLevel(t, k, l)
  \/ \E t \in Threads : CrLock(t)
  \/ \E t \in Threads : CrCreate(t)
  \/ \E t \in Threads : CrUnlock(t)

SpecCreate == Init /\ [][NextCreate]_vars

(* --------- second revision: free functions, lines 86-195 --------------- *)
\* int kSinkInit = 0; no statement assigns it
kSinkInit == 0

\* createLogger that gives every logger the default argument's level
Rev2_createLogger_IgnoreLevel(key, level) ==
  /\ loggers' = Append(loggers, [name |-> key, level |-> Info, pattern |-> LOG_PATTERN])
  /\ fancy_log_map' = IF fancy_log_map[key] = NullPtr
                        THEN [fancy_log_map EXCEPT ![key] = new_logger]
                        ELSE fancy_log_map

\* createLogger(key, level = level_enum::info); returns new_logger
Rev2_createLogger(key, level) ==
  /\ loggers' = Append(loggers, [name |-> key, level |-> level, pattern |-> LOG_PATTERN])
  \* unordered map insert keeps an existing entry
  /\ fancy_log_map' = IF fancy_log_map[key] = NullPtr
                        THEN [fancy_log_map EXCEPT ![key] = new_logger]
                        ELSE fancy_log_map

\* initFancyLogger: if (!kSinkInit) initSink(); it = getFancyLogMap()->find(key)
Rev2_InitFind(t) ==
  /\ pc[t] = "init_find"
  /\ IF kSinkInit = 0 THEN initSink ELSE UNCHANGED sink
  /\ it' = [it EXCEPT ![t] = fancy_log_map[arg[t].key]]
  /\ Goto(t, "init_target")
  /\ UNCHANGED <<fancy_log_map, loggers, fancy_default_level, fancy_log_format,
                 fancy_log_lock, flogger, arg, target, local_flogger, ret, nops>>

\* initFancyLogger: target = createLogger(key) or it->second.get()
Rev2_InitTarget(t) ==
  /\ pc[t] = "init_target"
  /\ IF it[t] = NullPtr
       THEN /\ Rev2_createLogger(arg[t].key, Info)
            /\ target' = [target EXCEPT ![t] = new_logger]
       ELSE /\ target' = [target EXCEPT ![t] = it[t]]
            /\ UNCHANGED <<fancy_log_map, loggers>>
  /\ Goto(t, "init_store")
  /\ UNCHANGED <<sink, fancy_default_level, fancy_log_format, fancy_log_lock, flogger,
                 arg, it, local_flogger, ret, nops>>

\* setFancyLogger: absl::WriterMutexLock l(&fancy_log_lock__)
Rev2_SetLock(t) ==
  /\ pc[t] = "set_lock"
  /\ WriterMutexLock(t)
  /\ Goto(t, "set_find")
  /\ UNCHANGED <<shared, flogger, locals, nops>>

\* setFancyLogger: it = getFancyLogMap()->find(key)
Rev2_SetFind(t) ==
  /\ pc[t] = "set_find"
  /\ it' = [it EXCEPT ![t] = fancy_log_map[arg[t].key]]
  /\ Goto(t, "set_level")
  /\ UNCHANGED <<shared, fancy_log_lock, flogger, arg, target, local_flogger, ret, nops>>

\* setFancyLogger: it->second->set_level(log_level) or createLogger(key, log_level)
Rev2_SetLevel(t) ==
  /\ pc[t] = "set_level"
  /\ IF it[t] # NullPtr
       THEN /\ loggers' = [loggers EXCEPT ![it[t]].level = arg[t].level]
            /\ UNCHANGED fancy_log_map
       ELSE Rev2_createLogger(arg[t].key, arg[t].level)
  /\ Goto(t, "set_unlock")
  /\ UNCHANGED <<sink, fancy_default_level, fancy_log_format,
                 fancy_log_lock, flogger, locals, nops>>

NextRev2 ==
  \/ \E t \in Threads, s \in Sites : FANCY_LOG(t, s)
  \/ \E t \in Threads : LogLoad(t)
  \/ \E t \in Threads : InitLock(t)
  \/ \E t \in Threads : Rev2_InitFind(t)
  \/ \E t \in Threads : Rev2_InitTarget(t)
  \/ \E t \in Threads : InitStore(t)
  \/ \E t \in Threads : InitUnlock(t)
  \/ \E t \in Threads : LogReload(t)
  \/ \E t \in Threads : LogCall(t)
  \/ \E t \in Threads : LogReturn(t)
  \/ \E t \in Threads, k \in Keys, l \in Levels : setFancyLogger(t, k, l)
  \/ \E t \in Threads : Rev2_SetLock(t)
  \/ \E t \in Threads : Rev2_SetFind(t)
  \/ \E t \in Threads : Rev2_SetLevel(t)
  \/ \E t \in Threads : SetUnlock(t)

SpecRev2 == Init /\ [][NextRev2]_vars

(* ------------------------------ properties ----------------------------- *)
\* the loggers ever constructed for key k
Created(k) == {p \in 1..Len(loggers) : loggers[p].name = k}

\* thread t has returned from initFancyLogger inside FANCY_LOG
InitReturned(t) == pc[t] = "log_reload"

\* thread t made a step of its own
Stepped(t) == pc'[t] # pc[t]

\* C1: however many threads race through initFancyLogger for a key the map
\* lacks, one logger is constructed and inserted for the key, and once the
\* calls have returned every caller's slot holds that logger.
C1_SingleCreation ==
  \A k \in Keys :
    /\ Cardinality(Created(k)) <= 1
    /\ fancy_log_map[k] # NullPtr <=> Created(k) = {fancy_log_map[k]}
    /\ \A t \in Threads :
         InitReturned(t) /\ arg[t].key = k =>
           /\ Cardinality(Created(k)) = 1
           /\ flogger[arg[t].site] = fancy_log_map[k]
           /\ flogger[arg[t].site] # NullPtr

\* two threads raced on the same new key and both have returned
C1_Witness ==
  \E t1, t2 \in Threads :
    /\ t1 # t2
    /\ InitReturned(t1) /\ InitReturned(t2)
    /\ arg[t1].key = arg[t2].key
    /\ nops = 2
    /\ Cardinality(Created(arg[t1].key)) = 1

\* C2: a key of the map stays in the map and stays mapped to the same
\* logger object, whatever operation steps; only level and pattern of the
\* object may change.
C2_EntriesPermanent ==
  [][\A k \in Keys :
       fancy_log_map[k] # NullPtr =>
         /\ fancy_log_map'[k] = fancy_log_map[k]
         /\ fancy_log_map[k] \in 1..Len(loggers')
         /\ loggers'[fancy_log_map[k]].name = loggers[fancy_log_map[k]].name]_vars

\* every key is registered, a level was set individually and a default
\* update has acted on the map
C2_Witness ==
  /\ Registered = Keys
  /\ \E t \in Threads : pc[t] = "def_unlock"
  /\ \E k \in Keys : loggers[fancy_log_map[k]].level # fancy_default_level

\* C3: a slot that is not empty never changes: it does not return to empty
\* and every later store writes the pointer it already holds.
C3_CacheStable ==
  [][\A s \in Sites : flogger[s] # NullPtr => flogger'[s] = flogger[s]]_vars

\* two threads raced on the empty slot of one site; the second has just
\* stored into the slot the first one filled
C3_Witness ==
  \E t1, t2 \in Threads :
    /\ t1 # t2
    /\ arg[t1].site = arg[t2].site
    /\ pc[t1] = "init_unlock"
    /\ pc[t2] = "log_reload"
    /\ flogger[arg[t1].site] # NullPtr

\* C4: distinct call sites of one key that have resolved their slots hold
\* the same logger, and the key accounts for one logger however many sites
\* resolved it.
C4_ManyToOne ==
  \A s1, s2 \in Sites :
    FANCY_KEY(s1) = FANCY_KEY(s2) /\ flogger[s1] # NullPtr /\ flogger[s2] # NullPtr =>
      /\ flogger[s1] = flogger[s2]
      /\ Created(FANCY_KEY(s1)) = {flogger[s1]}
      /\ Cardinality(Registered) = Len(loggers)

\* two distinct sites of one key are resolved
C4_Witness ==
  \E s1, s2 \in Sites :
    /\ s1 # s2
    /\ FANCY_KEY(s1) = FANCY_KEY(s2)
    /\ flogger[s1] # NullPtr /\ flogger[s2] # NullPtr

\* thread t is inside setFancyLogger, holding the lock
InSet(t) == pc[t] \in {"set_find", "set_level", "set_unlock"}

\* C5: setFancyLogger returns true exactly when the map holds the key; for
\* a key the map lacks it returns false, constructs no logger and changes
\* neither the map nor any logger.
C5_UnknownKey ==
  [][\A t \in Threads :
       InSet(t) /\ Stepped(t) =>
         /\ pc'[t] = "set_unlock" =>
              /\ ret'[t].value \in {"true", "false"}
              /\ ret'[t].value = "true" <=> fancy_log_map[arg[t].key] # NullPtr
         /\ fancy_log_map[arg[t].key] = NullPtr =>
              /\ fancy_log_map' = fancy_log_map
              /\ loggers' = loggers
              /\ pc[t] = "set_unlock" => ret[t].value = "false"]_vars

\* setFancyLogger is about to return false while other loggers exist
C5_Witness ==
  \E t \in Threads :
    /\ pc[t] = "set_unlock"
    /\ ret[t].value = "false"
    /\ fancy_log_map[arg[t].key] = NullPtr
    /\ Len(loggers) > 0

\* C6: a successful setFancyLogger(a, L) sets the level of a's logger to L
\* and leaves every other logger, the keys of the map and the defaults as
\* they were.
C6_TargetedUpdate ==
  [][\A t \in Threads :
       pc[t] = "set_level" /\ Stepped(t) =>
         /\ loggers' = [loggers EXCEPT ![fancy_log_map[arg[t].key]].level = arg[t].level]
         /\ fancy_log_map' = fancy_log_map
         /\ fancy_default_level' = fancy_default_level
         /\ fancy_log_format' = fancy_log_format]_vars

\* setFancyLogger has set a level that another logger does not have
C6_Witness ==
  \E t \in Threads :
    /\ pc[t] = "set_unlock"
    /\ ret[t].value = "true"
    /\ loggers[fancy_log_map[arg[t].key]].level = arg[t].level
    /\ \E k \in Registered : loggers[fancy_log_map[k]].level # arg[t].level

C8_DefaultAware ==
  [][\A t \in Threads :
       pc[t] = "def_apply" /\ Stepped(t) =>
         /\ Len(loggers') = Len(loggers)
         /\ \A k \in Registered :
              LET p == fancy_log_map[k]
              IN loggers'[p].level =
                   IF loggers[p].level = fancy_default_level
                     THEN arg[t].level
                     ELSE loggers[p].level]_vars

\* the default update has moved a default-level logger and left a
\* customized one
C8_Witness ==
  \E t \in Threads :
    /\ pc[t] = "def_unlock"
    /\ fancy_default_level = arg[t].level
    /\ \E k1, k2 \in Registered :
         /\ loggers[fancy_log_map[k1]].level = arg[t].level
         /\ loggers[fancy_log_map[k2]].level # arg[t].level
         /\ loggers[fancy_log_map[k2]].level # Info
    /\ arg[t].level # Info
    /\ nops = 4

\* C9: a logger constructed without a level gets the default level and the
\* default format of the moment of its construction; constructed with a
\* level it gets that level.
C9_CreationDefaults ==
  [][\A t \in Threads :
       pc[t] \in {"init_target", "cr_create"} /\ Stepped(t) /\ loggers' # loggers =>
         /\ loggers' = Append(loggers, loggers'[Len(loggers')])
         /\ LET r == loggers'[Len(loggers')]
            IN /\ r.name = arg[t].key
               /\ r.pattern = fancy_log_format
               /\ r.level = IF pc[t] = "cr_create"
                              THEN arg[t].level
                              ELSE fancy_default_level]_vars

\* after a default update changed level and format, one logger was
\* constructed without a level and one with a level that is not the default
C9_Witness ==
  /\ fancy_default_level # Info
  /\ fancy_log_format # LOG_PATTERN
  /\ \E p, q \in 1..Len(loggers) :
       /\ loggers[p].level = fancy_default_level
       /\ loggers[p].pattern = fancy_log_format
       /\ loggers[q].level # fancy_default_level
       /\ loggers[q].pattern = fancy_log_format
  /\ \E t \in Threads : pc[t] = "cr_unlock" /\ arg[t].level # fancy_default_level
  /\ nops = 3

\* thread t is on the fast path: at the load with its slot resolved, or at
\* the log call
OnFastPath(t) ==
  \/ pc[t] = "log_load" /\ flogger[arg[t].site] # NullPtr
  \/ pc[t] = "log_call"

\* C10: a FANCY_LOG that finds its slot resolved goes to the log call and
\* returns without a step that takes the lock or changes the map, and its
\* steps are enabled while another thread holds the lock exclusively.
C10_LockFreeFastPath ==
  /\ [][\A t \in Threads :
          OnFastPath(t) /\ Stepped(t) =>
            /\ pc'[t] = IF pc[t] = "log_load" THEN "log_call" ELSE "log_return"
            /\ fancy_log_lock' = fancy_log_lock
            /\ fancy_log_map' = fancy_log_map]_vars
  /\ [](\A t \in Threads :
          OnFastPath(t) /\ fancy_log_lock.writer \notin {0, t} =>
            ENABLED (LogLoad(t) \/ LogCall(t)))

\* a thread took the fast path through a slot that the thread still holding
\* the exclusive lock has just filled
C10_Witness ==
  \E t, t2 \in Threads :
    /\ t # t2
    /\ pc[t] = "log_call"
    /\ pc[t2] = "init_unlock"
    /\ it[t2] = NullPtr
    /\ fancy_log_lock.writer = t2
    /\ local_flogger[t] = target[t2]

\* C11: a level set by setFancyLogger reaches the call sites that cached the
\* logger, before or after the update: every log call is forwarded to the
\* sink exactly when its level passes the level the map's logger for the
\* site's key has at that moment.
C11_LevelTakesEffect ==
  [][\A t \in Threads :
       pc[t] = "log_call" /\ Stepped(t) =>
         /\ local_flogger[t] = fancy_log_map[arg[t].key]
         /\ ret'[t].value = IF arg[t].level >= loggers[fancy_log_map[arg[t].key]].level
                        THEN "shown"
                        ELSE "suppressed"]_vars

\* the third operation is a FANCY_LOG below the default level that was
\* shown, at the only resolved site, after the logger's level was lowered
\* while the defaults stayed as they were
C11_Witness ==
  \E t \in Threads :
    /\ pc[t] = "log_return"
    /\ ret[t].value = "shown"
    /\ arg[t].level < Info
    /\ loggers[fancy_log_map[arg[t].key]].level <= arg[t].level
    /\ fancy_default_level = Info
    /\ \A s \in Sites : flogger[s] # NullPtr <=> s = arg[t].site
    /\ \A t2 \in Threads \ {t} : pc[t2] = "idle"
    /\ nops = 3

\* C12: a slot that is not empty holds the logger the map has for the key of
\* its call site.
C12_CachedPointerValid ==
  \A s \in Sites :
    flogger[s] # NullPtr =>
      /\ fancy_log_map[FANCY_KEY(s)] # NullPtr
      /\ flogger[s] = fancy_log_map[FANCY_KEY(s)]
      /\ loggers[flogger[s]].name = FANCY_KEY(s)

\* sites of two different keys are resolved
C12_Witness ==
  \E s1, s2 \in Sites :
    /\ FANCY_KEY(s1) # FANCY_KEY(s2)
    /\ flogger[s1] # NullPtr
    /\ flogger[s2] # NullPtr

\* thread t is inside setFancyLogger, setAllLevels, setDefaultLevelAndFormat
\* or list
InAdmin(t) ==
  pc[t] \in {"set_lock", "set_find", "set_level", "set_unlock",
             "all_lock", "all_apply", "all_unlock",
             "def_lock", "def_apply", "def_unlock",
             "list_lock", "list_snap", "list_unlock"}

\* C13: no step of setFancyLogger, setAllLevels, setDefaultLevelAndFormat or
\* list changes a slot.
C13_AdminLeavesCaches ==
  [][\A t \in Threads : InAdmin(t) /\ Stepped(t) => flogger' = flogger]_vars

\* with a slot resolved, setFancyLogger has written a level and list has
\* taken its snapshot
C13_Witness ==
  \E t1, t2 \in Threads :
    /\ pc[t1] = "set_unlock" /\ ret[t1].value = "true"
    /\ pc[t2] = "list_unlock"
    /\ \E s \in Sites : flogger[s] # NullPtr

\* C14: under fair scheduling every operation a thread has started returns:
\* no thread waits forever for the lock, whatever mix of logging and
\* administrative operations runs.
C14_EveryOperationCompletes ==
  \A t \in Threads : (pc[t] # "idle") ~> (pc[t] = "idle")

\* a thread waits for the exclusive lock while another thread holds the
\* lock shared and a third operation has already run
C14_Witness ==
  \E t1, t2 \in Threads :
    /\ pc[t1] \in {"init_lock", "all_lock", "def_lock"}
    /\ pc[t2] \in {"set_find", "set_level", "set_unlock", "list_snap", "list_unlock"}
    /\ t2 \in fancy_log_lock.readers
    /\ nops >= 3

\* thread t is inside the critical section of initFancyLogger, setAllLevels
\* or setDefaultLevelAndFormat
InExclusiveSection(t) ==
  pc[t] \in {"init_find", "init_target", "init_store", "init_unlock",
             "all_apply", "all_unlock", "def_apply", "def_unlock"}

\* thread t is inside the critical section of setFancyLogger
InSetSection(t) == pc[t] \in {"set_find", "set_level", "set_unlock"}

\* C15 as claimed: while a setFancyLogger call is between its lookup and its
\* write of the level, no other setFancyLogger, initFancyLogger,
\* setAllLevels or setDefaultLevelAndFormat call is inside its critical
\* section.
C15_SetLevelExclusive ==
  \A t, t2 \in Threads :
    pc[t] = "set_level" /\ t2 # t =>
      ~InSetSection(t2) /\ ~InExclusiveSection(t2)

\* C15 amended: setFancyLogger holds the lock shared; while a call is between
\* its lookup and its write no initFancyLogger, setAllLevels or
\* setDefaultLevelAndFormat call is inside its critical section, and nobody
\* holds the lock exclusively.
C15_SetLevelShared ==
  \A t \in Threads :
    InSetSection(t) =>
      /\ t \in fancy_log_lock.readers
      /\ fancy_log_lock.writer = 0
      /\ \A t2 \in Threads : ~InExclusiveSection(t2)

\* a setFancyLogger call is between lookup and write while an
\* initFancyLogger call waits for the lock
C15_Witness ==
  \E t, t2 \in Threads :
    /\ pc[t] = "set_level"
    /\ pc[t2] = "init_lock"
    /\ arg[t2].key = arg[t].key

\* thread t is inside a call of initFancyLogger
InInit(t) ==
  pc[t] \in {"init_lock", "init_find", "init_target", "init_store", "init_unlock"}

\* C16 as claimed: a call site calls initFancyLogger at most once, and never
\* after the first store into its slot: no two threads are in the call for
\* one site, and a thread that has not stored yet finds the slot empty.
C16_ResolvedOnce ==
  \A t \in Threads :
    InInit(t) =>
      /\ \A t2 \in Threads \ {t} : ~(InInit(t2) /\ arg[t2].site = arg[t].site)
      /\ pc[t] # "init_unlock" => flogger[arg[t].site] = NullPtr

\* C16 amended: a thread calls initFancyLogger for a site only when its own
\* load of the slot returned empty, and once per FANCY_LOG statement it
\* runs; a FANCY_LOG that loads a resolved slot does not call it, so a site
\* is resolved at most once per thread that raced on the empty slot.
C16_ResolvedOncePerRacer ==
  /\ [](\A t \in Threads : InInit(t) => local_flogger[t] = NullPtr)
  /\ [][\A t \in Threads :
          Stepped(t) =>
            /\ pc'[t] = "init_lock" =>
                 pc[t] = "log_load" /\ flogger[arg[t].site] = NullPtr
            /\ pc[t] = "init_unlock" => pc'[t] = "log_reload"
            /\ pc[t] = "log_reload" =>
                 pc'[t] = "log_call" /\ local_flogger'[t] # NullPtr]_vars

\* a thread waits to enter initFancyLogger for a site whose slot another
\* thread, still inside its own call, has already stored
C16_Witness ==
  \E t1, t2 \in Threads :
    /\ t1 # t2
    /\ pc[t1] = "init_lock"
    /\ pc[t2] = "init_unlock"
    /\ arg[t1].site = arg[t2].site
    /\ flogger[arg[t1].site] # NullPtr
    /\ local_flogger[t1] = NullPtr

\* C17: the sink's lock is installed once: the first createLogger installs
\* it, and every later createLogger finds hasLock true and leaves the sink
\* alone.
C17_SinkLockOnce ==
  /\ [](/\ sink.setLockCalls = (IF Len(loggers) > 0 THEN 1 ELSE 0)
        /\ sink.hasLock <=> Len(loggers) > 0
        /\ sink.hasLock => ~sink.should_escape)
  /\ [][sink.hasLock => sink' = sink]_vars

\* two loggers were constructed and the lock was installed once
C17_Witness ==
  /\ Len(loggers) = 2
  /\ sink.setLockCalls = 1
  /\ sink.hasLock

\* C18: initFancyLogger for a key the map holds constructs no logger and
\* changes neither the map, nor any logger's level or pattern, nor the
\* defaults, nor another site's slot; it writes the caller's slot only.
C18_MediumPathFrame ==
  [][\A t \in Threads :
       pc[t] \in {"init_find", "init_target", "init_store", "init_unlock"}
         /\ Stepped(t) /\ fancy_log_map[arg[t].key] # NullPtr =>
           /\ UNCHANGED shared
           /\ \A s \in Sites \ {arg[t].site} : flogger'[s] = flogger[s]
           /\ flogger'[arg[t].site] \in {flogger[arg[t].site], fancy_log_map[arg[t].key]}
           /\ pc[t] = "init_unlock" => flogger[arg[t].site] = fancy_log_map[arg[t].key]]_vars

\* the medium path has stored a logger whose level and pattern are not the
\* current defaults
C18_Witness ==
  \E t \in Threads :
    /\ pc[t] = "init_unlock"
    /\ it[t] # NullPtr
    /\ flogger[arg[t].site] = it[t]
    /\ loggers[it[t]].level # fancy_default_level
    /\ loggers[it[t]].pattern # fancy_log_format

\* C20: when initFancyLogger returns the slot is stored, the store coming
\* before the release of the lock, so the pointer FANCY_LOG logs through is
\* never null.
C20_NoLogThroughEmptySlot ==
  \A t \in Threads :
    /\ pc[t] \in {"init_unlock", "log_reload"} => flogger[arg[t].site] # NullPtr
    /\ pc[t] = "init_unlock" => fancy_log_lock.writer = t
    /\ pc[t] = "log_call" => local_flogger[t] # NullPtr /\ Valid(local_flogger[t])

\* two threads raced on the empty slot of one site and both are at the log
\* call
C20_Witness ==
  \E t1, t2 \in Threads :
    /\ t1 # t2
    /\ pc[t1] = "log_call" /\ pc[t2] = "log_call"
    /\ arg[t1].site = arg[t2].site
    /\ nops = 2

\* C19: in the second revision setFancyLogger(key, L) for a key the map
\* lacks makes exactly one logger for key, at level L, and puts it into the
\* map; a key never has two loggers; an initFancyLogger that then finds the
\* key stores that logger into the slot and changes no logger's level.
C19_SetCreatesOnDemand ==
  /\ [](/\ \A i, j \in 1..Len(loggers) : loggers[i].name = loggers[j].name => i = j
        /\ \A k \in Keys : fancy_log_map[k] # NullPtr => Valid(fancy_log_map[k]))
  /\ [][\A t \in Threads :
          /\ pc[t] = "set_level" /\ Stepped(t) /\ fancy_log_map[arg[t].key] = NullPtr =>
               /\ loggers' = Append(loggers, [name |-> arg[t].key, level |-> arg[t].level,
                                              pattern |-> LOG_PATTERN])
               /\ fancy_log_map' = [fancy_log_map EXCEPT ![arg[t].key] = Len(loggers) + 1]
          /\ pc[t] \in {"init_find", "init_target", "init_store", "init_unlock"}
               /\ Stepped(t) /\ fancy_log_map[arg[t].key] # NullPtr =>
               /\ UNCHANGED <<fancy_log_map, loggers>>
               /\ pc[t] = "init_unlock" => flogger[arg[t].site] = fancy_log_map[arg[t].key]]_vars

\* of two operations, a setFancyLogger made the key's logger at a level
\* other than the default argument's, and an initFancyLogger that found it
\* has stored it into its slot
C19_Witness ==
  \E t \in Threads :
    /\ nops = 2
    /\ pc[t] = "init_unlock"
    /\ it[t] # NullPtr
    /\ flogger[arg[t].site] = it[t]
    /\ Len(loggers) = 1
    /\ loggers[it[t]].name = arg[t].key
    /\ loggers[it[t]].level # Info

\* thread t is inside a call of setAllFancyLoggers
InSetAll(t) == pc[t] \in {"all_lock", "all_apply", "all_unlock"}

\* C21: no step of setAllFancyLoggers changes the default level, the default
\* format, the map or the number of loggers; and the logger initFancyLogger
\* creates for a key the map lacks gets the default level and format of that
\* moment, whatever levels the other loggers have been set to.
C21_BulkLeavesDefaults ==
  [][\A t \in Threads :
       /\ InSetAll(t) /\ Stepped(t) =>
            /\ UNCHANGED <<fancy_default_level, fancy_log_format, fancy_log_map>>
            /\ Registered' = Registered
            /\ Len(loggers') = Len(loggers)
       /\ pc[t] = "init_target" /\ Stepped(t) /\ it[t] = NullPtr =>
            /\ Len(loggers') = Len(loggers) + 1
            /\ loggers'[Len(loggers')].level = fancy_default_level
            /\ loggers'[Len(loggers')].pattern = fancy_log_format
            /\ fancy_default_level' = fancy_default_level]_vars

\* setAllFancyLoggers has moved a logger to a level other than the default
\* and still holds the lock, while another thread waits to create the logger
\* of a key the map lacks
C21_Witness ==
  \E t1, t2 \in Threads :
    /\ pc[t1] = "all_unlock"
    /\ arg[t1].level # fancy_default_level
    /\ \E k \in Registered : loggers[fancy_log_map[k]].level = arg[t1].level
    /\ pc[t2] = "init_lock"
    /\ arg[t2].key \notin Registered

TypeOK ==
  /\ fancy_log_map \in [Keys -> 0..Len(loggers)]
  /\ nops \in 0..MaxOps
====
